---- MODULE Spec2Model ----
(***************************************************************************)
(* Model of the transcription task queue:                                  *)
(*   app/services/task_queue.py   TaskQueue (store, semaphore, runner)     *)
(*   app/routes/transcribe.py     upload_audio, get_task_status,           *)
(*                                delete_task                              *)
(*   app/services/whisperx_service.py  WhisperXService.transcribe         *)
(*                                                                         *)
(* Atomicity.  TaskQueue is documented thread-safe and guards _tasks and   *)
(* _task_results with a threading.Lock: every `with self._lock` block is   *)
(* one step of the model, and the statements of one handler that lie in    *)
(* different lock blocks are different steps, which other callers may      *)
(* interleave with.  Statements between two lock blocks that touch no      *)
(* shared map are folded into the neighbouring step.                       *)
(*                                                                         *)
(* Specifications.                                                         *)
(*   Spec       uploads, executions, polls, deletes, sweeps and the clock, *)
(*              interleaved at lock-block granularity.                     *)
(*   SpecSnap   Spec's uploads and executions beside a caller of get_task  *)
(*              that keeps the record it got.                              *)
(*   SpecStats  uploads, executions, polls and deletes beside get_stats.   *)
(*   SpecWith   executions around a pipeline that reports any percentage.  *)
(*   SpecFair   Spec with every execution's steps weakly fair.             *)
(*   SpecBurst  a burst of uploads whose executions contend for the slots. *)
(*   SpecLoop   the application as wired: one event loop, on which the     *)
(*              body of process_task runs without suspending.              *)
(***************************************************************************)
EXTENDS Integers, Sequences, FiniteSets

\* ---------------------------------------------------------------- bounds
MaxTasks == 2        \* number of uploads (task ids 1..MaxTasks)
MaxCapacity == 2     \* MAX_CONCURRENT_TASKS ranges over 1..MaxCapacity
MaxClock == 1        \* datetime.utcnow() ranges over 0..MaxClock
MaxDeletes == 2      \* delete requests that may be in flight at once

\* Optional[T]: None is the empty tuple, a present value v is <<v>>.
None == <<>>
Some(v) == <<v>>

\* ------------------------------------------------------------ TaskStatus
PENDING == "pending"
PROCESSING == "processing"
TRANSCRIBING == "transcribing"
ALIGNING == "aligning"
DIARIZING == "diarizing"
COMPLETED == "completed"
FAILED == "failed"

RunningStatuses == {PROCESSING, TRANSCRIBING, ALIGNING, DIARIZING}
TerminalStatuses == {COMPLETED, FAILED}

\* audio_path values handed to create_task: an upload's file path, or none.
AudioPaths == {"", "upload"}

\* str(e) of the faults a pipeline call may raise.
Descriptions == {"CUDA out of memory"}

VARIABLES
    capacity,       \* settings.MAX_CONCURRENT_TASKS
    tasks,          \* TaskQueue._tasks        : task id -> TaskProgress
    task_results,   \* TaskQueue._task_results : task id -> TranscriptionResult
    sem_value,      \* TaskQueue._semaphore._value
    sem_waiters,    \* TaskQueue._semaphore._waiters (FIFO of task ids)
    running_tasks,  \* TaskQueue._running_tasks
    pc,             \* position of process_task(task id)
    stage,          \* progress callbacks issued by the transcribe call in progress
    exc,            \* the exception the pipeline call of process_task raised
    files,          \* task ids whose uploaded audio file is on disk
    deleting,       \* task id -> delete_task calls between get_task and removal
    clock,          \* datetime.utcnow()
    response,       \* what the handler that finished in this step returned
    ready,          \* woken semaphore waiters in the event loop's ready queue
    held,           \* the record a caller of get_task still holds, if any
    stats,          \* get_stats between its lock block and its return
    lock            \* the holder of TaskQueue._lock between steps (None: free)

vars == <<capacity, tasks, task_results, sem_value, sem_waiters, running_tasks,
          pc, stage, exc, files, deleting, clock, response, ready, held,
          stats, lock>>

\* Task ids: uuid4 values, one per upload; pc has one entry per id.
TaskIds == DOMAIN pc

\* response is NoResponse unless the step ends a delete_task call.
NoResponse == [op |-> "none"]

\* -------------------------------------------------------------- the store

\* Slip: the record is created as already started.
NewTask_Started(task_id, audio_path, now) ==
    [task_id |-> task_id,
     status |-> PENDING,
     progress |-> 0,
     message |-> "Task queued",
     created_at |-> now,
     started_at |-> Some(now),
     completed_at |-> None,
     error |-> None,
     result |-> None,
     audio_path |-> audio_path]

\* TaskProgress(task_id, status=PENDING, progress=0.0, message="Task queued",
\* created_at=utcnow()) plus the _audio_path attribute.
NewTask(task_id, audio_path, now) ==
    [task_id |-> task_id,
     status |-> PENDING,
     progress |-> 0,
     message |-> "Task queued",
     created_at |-> now,
     started_at |-> None,
     completed_at |-> None,
     error |-> None,
     result |-> None,
     audio_path |-> audio_path]

\* The result transcribe returns for a task's audio.
ResultOf(task_id) == [language |-> "en", audio |-> task_id]

\* create_task's lock block.
CreateTask(ts, task_id, audio_path, now) ==
    [t \in DOMAIN ts \cup {task_id} |->
        IF t = task_id THEN NewTask(task_id, audio_path, now) ELSE ts[t]]

\* Slip: the field tests chained with elif, so that one call applies only
\* the first field it was given.
UpdatedRecord_FirstFieldOnly(task, status, progress, message, error, now) ==
    IF status # None THEN [task EXCEPT !.status = status[1]]
    ELSE IF progress # None THEN [task EXCEPT !.progress = progress[1]]
    ELSE IF message # None THEN [task EXCEPT !.message = message[1]]
    ELSE IF error # None THEN [task EXCEPT !.error = Some(error[1])]
    ELSE task

\* Slip: started_at is stamped at every PROCESSING update, without the
\* `is None` test.
UpdatedRecord_RestampsStart(task, status, progress, message, error, now) ==
    LET t1 == IF status # None
              THEN [task EXCEPT
                      !.status = status[1],
                      !.started_at =
                          IF status[1] = PROCESSING THEN Some(now) ELSE @,
                      !.completed_at =
                          IF status[1] \in {COMPLETED, FAILED}
                          THEN Some(now) ELSE @]
              ELSE task
        t2 == IF progress # None THEN [t1 EXCEPT !.progress = progress[1]] ELSE t1
        t3 == IF message # None THEN [t2 EXCEPT !.message = message[1]] ELSE t2
    IN  IF error # None THEN [t3 EXCEPT !.error = Some(error[1])] ELSE t3

\* update_task: status, progress, message, error are None or Some(value).
UpdatedRecord(task, status, progress, message, error, now) ==
    LET t1 == IF status # None
              THEN [task EXCEPT
                      !.status = status[1],
                      !.started_at =
                          IF status[1] = PROCESSING /\ task.started_at = None
                          THEN Some(now) ELSE @,
                      !.completed_at =
                          IF ~(status[1] = PROCESSING /\ task.started_at = None)
                             /\ status[1] \in {COMPLETED, FAILED}
                          THEN Some(now) ELSE @]
              ELSE task
        t2 == IF progress # None THEN [t1 EXCEPT !.progress = progress[1]] ELSE t1
        t3 == IF message # None THEN [t2 EXCEPT !.message = message[1]] ELSE t2
    IN  IF error # None THEN [t3 EXCEPT !.error = Some(error[1])] ELSE t3

\* Slip: an update for a missing id inserts a record instead of returning.
UpdateTask_Upsert(ts, task_id, status, progress, message, error, now) ==
    LET base == IF task_id \in DOMAIN ts THEN ts[task_id]
                ELSE NewTask(task_id, "", now)
    IN  [t \in DOMAIN ts \cup {task_id} |->
            IF t = task_id
            THEN UpdatedRecord(base, status, progress, message, error, now)
            ELSE ts[t]]

UpdateTask(ts, task_id, status, progress, message, error, now) ==
    IF task_id \notin DOMAIN ts
    THEN ts
    ELSE [ts EXCEPT ![task_id] =
            UpdatedRecord(ts[task_id], status, progress, message, error, now)]

\* set_result.
SetResult(rs, task_id, result) ==
    [t \in DOMAIN rs \cup {task_id} |-> IF t = task_id THEN result ELSE rs[t]]

\* get_task: the record map after the call (the stored result is written
\* into the record's result field) ...
GetTaskStore(ts, rs, task_id) ==
    IF task_id \in DOMAIN ts /\ task_id \in DOMAIN rs
    THEN [ts EXCEPT ![task_id].result = Some(rs[task_id])]
    ELSE ts

\* ... and the value it returns: the record, or None.
GetTask(ts, rs, task_id) ==
    IF task_id \in DOMAIN ts
    THEN Some(GetTaskStore(ts, rs, task_id)[task_id])
    ELSE None

\* A map without one key (del d[k] guarded by `if k in d`).
Without(m, task_id) == [t \in DOMAIN m \ {task_id} |-> m[t]]

\* ---------------------------------------------------------- the semaphore
\* Slip: release() wakes the waiter that queued last.
NextWaiter_Last ==
    LET idx == {i \in 1..Len(sem_waiters) : sem_waiters[i] \notin {t \in DOMAIN pc : pc[t] = "woken"}}
    IN  IF idx = {} THEN 0
        ELSE sem_waiters[CHOOSE i \in idx : \A k \in idx : i >= k]

\* Slip: locked() that lets one caller too many through.
SemLocked_OffByOne == sem_value < 0 \/ sem_waiters # <<>>

\* asyncio.Semaphore: locked() is true when no slot is free or when a
\* waiter is queued; release() hands the slot to the first waiter that has
\* not been woken yet.
SemLocked == sem_value = 0 \/ sem_waiters # <<>>

Woken == {t \in TaskIds : pc[t] = "woken"}

\* Slip: release() looks for a waiter whose future is done already, so a
\* waiter that has not been woken is never woken by it.
NextWaiter_Done ==
    LET idx == {i \in 1..Len(sem_waiters) : sem_waiters[i] \in Woken}
    IN  IF idx = {} THEN 0
        ELSE sem_waiters[CHOOSE i \in idx : \A k \in idx : i <= k]

\* first waiter whose future is not done, or 0
NextWaiter ==
    LET idx == {i \in 1..Len(sem_waiters) : sem_waiters[i] \notin Woken}
    IN  IF idx = {} THEN 0
        ELSE sem_waiters[CHOOSE i \in idx : \A k \in idx : i <= k]

RemoveWaiter(q, task_id) == SelectSeq(q, LAMBDA t : t # task_id)

\* The state after TaskQueue.__init__ with `ids` the ids uploads will get.
InitWith(ids) ==
    /\ capacity \in 1..MaxCapacity
    /\ tasks = <<>>
    /\ task_results = <<>>
    /\ sem_value = capacity
    /\ sem_waiters = <<>>
    /\ running_tasks = {}
    /\ pc = [t \in ids |-> "unborn"]
    /\ stage = [t \in ids |-> 0]
    /\ exc = [t \in ids |-> None]
    /\ files = {}
    /\ deleting = [t \in ids |-> 0]
    /\ clock = 0
    /\ response = NoResponse
    /\ ready = <<>>
    /\ held = None
    /\ stats = None
    /\ lock = None

Init == InitWith(1..MaxTasks)


\* ------------------------------------------------------ the progress table
\* Slip: the pipeline's "completed" stage mapped to the terminal status.
StatusMap_CompletedTerminal(name) ==
    CASE name = "loading_audio" -> PROCESSING
      [] name = "transcribing" -> TRANSCRIBING
      [] name = "aligning" -> ALIGNING
      [] name = "diarizing" -> DIARIZING
      [] name = "processing" -> PROCESSING
      [] name = "completed" -> COMPLETED
      [] OTHER -> PROCESSING

\* status_map of progress_callback, with its default for unknown stages.
StatusMap(name) ==
    CASE name = "loading_audio" -> PROCESSING
      [] name = "transcribing" -> TRANSCRIBING
      [] name = "aligning" -> ALIGNING
      [] name = "diarizing" -> DIARIZING
      [] name = "processing" -> PROCESSING
      [] name = "completed" -> PROCESSING
      [] OTHER -> PROCESSING


\* Slip: the alignment calls come before the transcription calls.
Stages_AlignFirst ==
    << [name |-> "loading_audio", percent |-> 5],
       [name |-> "aligning", percent |-> 10],
       [name |-> "aligning", percent |-> 40],
       [name |-> "transcribing", percent |-> 45],
       [name |-> "transcribing", percent |-> 60],
       [name |-> "diarizing", percent |-> 65],
       [name |-> "processing", percent |-> 90],
       [name |-> "completed", percent |-> 100] >>
\* The update_progress calls of WhisperXService.transcribe, in program order.
Stages ==
    << [name |-> "loading_audio", percent |-> 5],
       [name |-> "transcribing", percent |-> 10],
       [name |-> "transcribing", percent |-> 40],
       [name |-> "aligning", percent |-> 45],
       [name |-> "aligning", percent |-> 60],
       [name |-> "diarizing", percent |-> 65],
       [name |-> "processing", percent |-> 90],
       [name |-> "completed", percent |-> 100] >>

DiarizeStage == 6    \* index in Stages of the call under `if options.enable_diarization`
LoadAudioStage == 1  \* index in Stages of the call before whisperx.load_audio

\* --------------------------------------------------------------- handlers

\* upload_audio, from create_task on: the record is created under the lock
\* and process_task is handed to the background tasks.  Ids are fresh.
Submit(audio_path) ==
    /\ lock = None
    /\ \E t \in TaskIds :
        /\ pc[t] = "unborn"
        /\ \A u \in TaskIds : u < t => pc[u] # "unborn"
        /\ tasks' = CreateTask(tasks, t, audio_path, clock)
        /\ files' = IF audio_path # "" THEN files \cup {t} ELSE files
        /\ pc' = [pc EXCEPT ![t] = "scheduled"]
        /\ response' = NoResponse
    /\ UNCHANGED <<ready, held, stats>>
    /\ UNCHANGED <<capacity, task_results, sem_value, sem_waiters,
                   running_tasks, stage, exc, deleting, clock>>
    /\ UNCHANGED lock

\* process_task: `async with self._semaphore` entered; a free slot is taken
\* at once (and the id added to _running_tasks), otherwise the task queues.
Acquire(t) ==
    /\ pc[t] = "scheduled"
    /\ IF ~SemLocked
       THEN /\ sem_value' = sem_value - 1
            /\ running_tasks' = running_tasks \cup {t}
            /\ pc' = [pc EXCEPT ![t] = "lookup"]
            /\ UNCHANGED sem_waiters
       ELSE /\ sem_waiters' = Append(sem_waiters, t)
            /\ pc' = [pc EXCEPT ![t] = "waiting"]
            /\ UNCHANGED <<sem_value, running_tasks>>
    /\ response' = NoResponse
    /\ UNCHANGED <<ready, held, stats>>
    /\ UNCHANGED <<capacity, tasks, task_results, stage, exc, files,
                   deleting, clock>>
    /\ UNCHANGED lock

\* Semaphore.acquire after `await fut`: the woken task leaves the waiter
\* queue, passes a spare slot on, and enters the body.  The event loop
\* resumes woken tasks in the order their futures were set.
Resume(t) ==
    /\ pc[t] = "woken"
    /\ ready # <<>> /\ t = Head(ready)
    /\ LET q == RemoveWaiter(sem_waiters, t)
           idx == {i \in 1..Len(q) : q[i] \notin Woken}
           next == IF idx = {} THEN 0
                   ELSE q[CHOOSE i \in idx : \A k \in idx : i <= k]
       IN  /\ sem_waiters' = q
           /\ IF sem_value > 0 /\ next # 0
              THEN /\ sem_value' = sem_value - 1
                   /\ pc' = [pc EXCEPT ![t] = "lookup", ![next] = "woken"]
                   /\ ready' = Append(Tail(ready), next)
              ELSE /\ sem_value' = sem_value
                   /\ pc' = [pc EXCEPT ![t] = "lookup"]
                   /\ ready' = Tail(ready)
    /\ running_tasks' = running_tasks \cup {t}
    /\ response' = NoResponse
    /\ UNCHANGED <<held, stats>>
    /\ UNCHANGED <<capacity, tasks, task_results, stage, exc, files,
                   deleting, clock>>
    /\ UNCHANGED lock

\* Slip: the missing-record return placed outside try/finally and outside
\* the semaphore's scope, so that it leaves without the release.
Lookup_EarlyReturn(t) ==
    /\ lock = None
    /\ pc[t] = "lookup"
    /\ pc' = [pc EXCEPT ![t] =
                IF t \notin DOMAIN tasks THEN "returned"
                ELSE IF tasks[t].audio_path = "" THEN "no_audio"
                ELSE "start"]
    /\ response' = NoResponse
    /\ UNCHANGED <<ready, held, stats>>
    /\ UNCHANGED <<capacity, tasks, task_results, sem_value, sem_waiters,
                   running_tasks, stage, exc, files, deleting, clock>>
    /\ UNCHANGED lock

\* Slip: the `if not task: return` test is missing.
Lookup_NoCheck(t) ==
    /\ lock = None
    /\ pc[t] = "lookup"
    /\ pc' = [pc EXCEPT ![t] =
                IF t \in DOMAIN tasks /\ tasks[t].audio_path = ""
                THEN "no_audio" ELSE "start"]
    /\ response' = NoResponse
    /\ UNCHANGED <<ready, held, stats>>
    /\ UNCHANGED <<capacity, tasks, task_results, sem_value, sem_waiters,
                   running_tasks, stage, exc, files, deleting, clock>>
    /\ UNCHANGED lock

\* process_task lines 143-149: the record is looked up under the lock; no
\* record means return, otherwise _audio_path decides the next update.
Lookup(t) ==
    /\ lock = None
    /\ pc[t] = "lookup"
    /\ pc' = [pc EXCEPT ![t] =
                IF t \notin DOMAIN tasks THEN "finally"
                ELSE IF tasks[t].audio_path = "" THEN "no_audio"
                ELSE "start"]
    /\ response' = NoResponse
    /\ UNCHANGED <<ready, held, stats>>
    /\ UNCHANGED <<capacity, tasks, task_results, sem_value, sem_waiters,
                   running_tasks, stage, exc, files, deleting, clock>>
    /\ UNCHANGED lock

\* Slip: the `return` after the FAILED update is missing.
FailNoAudio_NoReturn(t) ==
    /\ lock = None
    /\ pc[t] = "no_audio"
    /\ tasks' = UpdateTask(tasks, t, Some(FAILED), None, None,
                           Some("Audio path not found"), clock)
    /\ pc' = [pc EXCEPT ![t] = "start"]
    /\ response' = NoResponse
    /\ UNCHANGED <<ready, held, stats>>
    /\ UNCHANGED <<capacity, task_results, sem_value, sem_waiters,
                   running_tasks, stage, exc, files, deleting, clock>>
    /\ UNCHANGED lock

\* process_task lines 150-156.
FailNoAudio(t) ==
    /\ lock = None
    /\ pc[t] = "no_audio"
    /\ tasks' = UpdateTask(tasks, t, Some(FAILED), None, None,
                           Some("Audio path not found"), clock)
    /\ pc' = [pc EXCEPT ![t] = "finally"]
    /\ response' = NoResponse
    /\ UNCHANGED <<ready, held, stats>>
    /\ UNCHANGED <<capacity, task_results, sem_value, sem_waiters,
                   running_tasks, stage, exc, files, deleting, clock>>
    /\ UNCHANGED lock

\* Slip: the lock is taken for the update and still held when the
\* pipeline is called.
Start_KeepsLock(t) ==
    /\ lock = None
    /\ pc[t] = "start"
    /\ tasks' = UpdateTask(tasks, t, Some(PROCESSING), Some(0),
                           Some("Starting transcription"), None, clock)
    /\ pc' = [pc EXCEPT ![t] = "transcribe"]
    /\ response' = NoResponse
    /\ lock' = Some(t)
    /\ UNCHANGED <<ready, held, stats>>
    /\ UNCHANGED <<capacity, task_results, sem_value, sem_waiters,
                   running_tasks, stage, exc, files, deleting, clock>>

\* process_task lines 158-163.
Start(t) ==
    /\ lock = None
    /\ pc[t] = "start"
    /\ tasks' = UpdateTask(tasks, t, Some(PROCESSING), Some(0),
                           Some("Starting transcription"), None, clock)
    /\ pc' = [pc EXCEPT ![t] = "transcribe"]
    /\ response' = NoResponse
    /\ UNCHANGED <<ready, held, stats>>
    /\ UNCHANGED <<capacity, task_results, sem_value, sem_waiters,
                   running_tasks, stage, exc, files, deleting, clock>>
    /\ UNCHANGED lock

\* Slip: the callback passes the status on and leaves the percentage out.
ProgressCallback_StatusOnly(ts, t, name, percent, now) ==
    UpdateTask(ts, t, Some(StatusMap(name)), None,
               Some("Status: " \o name), None, now)

\* Slip: the callback updates every record of the store, not the one of
\* the task_id its closure holds.
ProgressCallback_Broadcast(ts, t, name, percent, now) ==
    [u \in DOMAIN ts |->
        UpdatedRecord(ts[u], Some(StatusMap(name)), Some(percent),
                      Some("Status: " \o name), None, now)]

\* progress_callback(status, progress).
ProgressCallback(ts, t, name, percent, now) ==
    UpdateTask(ts, t, Some(StatusMap(name)), Some(percent),
               Some("Status: " \o name), None, now)

\* transcribe issues its next update_progress call.  The diarizing call is
\* skipped when options.enable_diarization is false (the option is drawn
\* here, where it is read); load_audio needs the file to be on disk.
Progress(t) ==
    /\ lock = None
    /\ pc[t] = "transcribe"
    /\ \E k \in 1..Len(Stages) :
        /\ \/ k = stage[t] + 1
           \/ k = stage[t] + 2 /\ stage[t] + 1 = DiarizeStage
        /\ stage[t] = LoadAudioStage => t \in files
        /\ tasks' = ProgressCallback(tasks, t, Stages[k].name,
                                     Stages[k].percent, clock)
        /\ stage' = [stage EXCEPT ![t] = k]
    /\ response' = NoResponse
    /\ UNCHANGED <<ready, held, stats>>
    /\ UNCHANGED <<capacity, task_results, sem_value, sem_waiters,
                   running_tasks, pc, exc, files, deleting, clock>>
    /\ UNCHANGED lock

\* The callbacks (0: none yet) after which the pipeline call can raise:
\* get_whisperx_service, load_audio, the model's load and transcribe, the
\* formatting of the result and its construction.  What alignment and
\* diarization raise is caught inside transcribe, which goes on.
FaultStages == {0, 1, 2, 7, 8}

\* transcribe (or get_whisperx_service) raises: control goes to the
\* except clause of process_task with the exception in flight.
Fault(t, description) ==
    /\ pc[t] = "transcribe"
    /\ stage[t] \in FaultStages
    /\ exc' = [exc EXCEPT ![t] = Some(description)]
    /\ pc' = [pc EXCEPT ![t] = "except"]
    /\ response' = NoResponse
    /\ stage' = [stage EXCEPT ![t] = 0]
    /\ UNCHANGED <<ready, held, stats>>
    /\ UNCHANGED <<capacity, tasks, task_results, sem_value, sem_waiters,
                   running_tasks, files, deleting, clock>>
    /\ UNCHANGED lock

\* Slip: the result is dropped instead of stored.
StoreResult_Skip(t) ==
    /\ pc[t] = "transcribe"
    /\ stage[t] = Len(Stages)
    /\ pc' = [pc EXCEPT ![t] = "complete"]
    /\ response' = NoResponse
    /\ UNCHANGED <<ready, held, stats>>
    /\ UNCHANGED <<capacity, tasks, task_results, sem_value, sem_waiters,
                   running_tasks, stage, exc, files, deleting, clock>>
    /\ UNCHANGED lock

\* transcribe returns its result; process_task line 191 stores it.
StoreResult(t) ==
    /\ lock = None
    /\ pc[t] = "transcribe"
    /\ stage[t] = Len(Stages)
    /\ task_results' = SetResult(task_results, t, ResultOf(t))
    /\ pc' = [pc EXCEPT ![t] = "complete"]
    /\ response' = NoResponse
    /\ stage' = [stage EXCEPT ![t] = 0]
    /\ UNCHANGED <<ready, held, stats>>
    /\ UNCHANGED <<capacity, tasks, sem_value, sem_waiters, running_tasks,
                   exc, files, deleting, clock>>
    /\ UNCHANGED lock

\* process_task lines 192-197.
Complete(t) ==
    /\ lock = None
    /\ pc[t] = "complete"
    /\ tasks' = UpdateTask(tasks, t, Some(COMPLETED), Some(100),
                           Some("Transcription completed successfully"),
                           None, clock)
    /\ pc' = [pc EXCEPT ![t] = "finally"]
    /\ response' = NoResponse
    /\ UNCHANGED <<ready, held, stats>>
    /\ UNCHANGED <<capacity, task_results, sem_value, sem_waiters,
                   running_tasks, stage, exc, files, deleting, clock>>
    /\ UNCHANGED lock

\* Slip: the except clause marks the job Failed without the description.
Except_NoError(t) ==
    /\ lock = None
    /\ pc[t] = "except"
    /\ tasks' = UpdateTask(tasks, t, Some(FAILED), None,
                           Some("Transcription failed"), None, clock)
    /\ pc' = [pc EXCEPT ![t] = "finally"]
    /\ response' = NoResponse
    /\ UNCHANGED <<ready, held, stats>>
    /\ UNCHANGED <<capacity, task_results, sem_value, sem_waiters,
                   running_tasks, stage, exc, files, deleting, clock>>
    /\ UNCHANGED lock

\* Slip: the except clause only logs.
Except_LogOnly(t) ==
    /\ pc[t] = "except"
    /\ pc' = [pc EXCEPT ![t] = "finally"]
    /\ response' = NoResponse
    /\ UNCHANGED <<ready, held, stats>>
    /\ UNCHANGED <<capacity, tasks, task_results, sem_value, sem_waiters,
                   running_tasks, stage, exc, files, deleting, clock>>
    /\ UNCHANGED lock

\* Slip: the except clause resets the progress with the status.
Except_ResetsProgress(t) ==
    /\ lock = None
    /\ pc[t] = "except"
    /\ tasks' = UpdateTask(tasks, t, Some(FAILED), Some(0),
                           Some("Transcription failed"), Some(exc[t][1]),
                           clock)
    /\ pc' = [pc EXCEPT ![t] = "finally"]
    /\ response' = NoResponse
    /\ UNCHANGED <<ready, held, stats>>
    /\ UNCHANGED <<capacity, task_results, sem_value, sem_waiters,
                   running_tasks, stage, exc, files, deleting, clock>>
    /\ UNCHANGED lock

\* process_task lines 201-208: `except Exception as e` handles the fault.
Except(t) ==
    /\ lock = None
    /\ pc[t] = "except"
    /\ tasks' = UpdateTask(tasks, t, Some(FAILED), None,
                           Some("Transcription failed"), Some(exc[t][1]),
                           clock)
    /\ pc' = [pc EXCEPT ![t] = "finally"]
    /\ response' = NoResponse
    /\ UNCHANGED <<ready, held, stats>>
    /\ UNCHANGED <<capacity, task_results, sem_value, sem_waiters,
                   running_tasks, stage, exc, files, deleting, clock>>
    /\ UNCHANGED lock

\* process_task lines 209-210 and the exit of `async with`: the id leaves
\* _running_tasks and the slot is released, to the first waiter if any.
\* The finally clause also runs for an exception no except clause handled
\* ("unwind"), which then leaves process_task with its caller.
Release(t) ==
    /\ pc[t] \in {"finally", "unwind"}
    /\ running_tasks' = running_tasks \ {t}
    /\ LET next == NextWaiter
           end == IF pc[t] = "unwind" THEN "raised" ELSE "returned"
       IN  IF next # 0
           THEN /\ sem_value' = sem_value
                /\ pc' = [pc EXCEPT ![t] = end, ![next] = "woken"]
                /\ ready' = Append(ready, next)
           ELSE /\ sem_value' = sem_value + 1
                /\ pc' = [pc EXCEPT ![t] = end]
                /\ ready' = ready
    /\ response' = NoResponse
    /\ UNCHANGED <<held, stats>>
    /\ UNCHANGED <<capacity, tasks, task_results, sem_waiters, stage, exc,
                   files, deleting, clock>>
    /\ UNCHANGED lock

\* The status code get_task_status answers with for what get_task returned.
StatusCode(task) == IF task = None THEN 404 ELSE 200

\* The status code get_task_result answers with for what get_task returned
\* (500 is "Task failed" for a FAILED record and "result is missing" for a
\* COMPLETED record without result).
ResultCode(task) ==
    IF task = None THEN 404
    ELSE IF task[1].status = FAILED THEN 500
    ELSE IF task[1].status # COMPLETED THEN 202
    ELSE IF task[1].result = None THEN 500
    ELSE 200

\* get_task as get_task_status and get_task_result call it: what it returns
\* is GetTask(tasks, task_results, t); its effect on the store is the join.
Poll(t) ==
    /\ lock = None
    /\ tasks' = GetTaskStore(tasks, task_results, t)
    /\ response' = NoResponse
    /\ UNCHANGED <<ready, held, stats>>
    /\ UNCHANGED <<capacity, task_results, sem_value, sem_waiters,
                   running_tasks, pc, stage, exc, files, deleting, clock>>
    /\ UNCHANGED lock

InFlightDeletes == {<<t, i>> \in TaskIds \X (1..MaxDeletes) : i <= deleting[t]}

\* delete_task lines 210-225: get_task, 404 when it returns None, otherwise
\* the audio file is removed from disk.
DeleteLookup(t) ==
    /\ lock = None
    /\ Cardinality(InFlightDeletes) < MaxDeletes
    /\ tasks' = GetTaskStore(tasks, task_results, t)
    /\ IF GetTask(tasks, task_results, t) = None
       THEN /\ response' = [op |-> "delete", task_id |-> t, code |-> 404]
            /\ UNCHANGED <<files, deleting>>
       ELSE /\ files' = IF tasks[t].audio_path # "" THEN files \ {t} ELSE files
            /\ deleting' = [deleting EXCEPT ![t] = @ + 1]
            /\ response' = NoResponse
    /\ UNCHANGED <<ready, held, stats>>
    /\ UNCHANGED <<capacity, task_results, sem_value, sem_waiters,
                   running_tasks, pc, stage, exc, clock>>
    /\ UNCHANGED lock

\* Slip: `del` without the membership tests; a missing key raises KeyError,
\* which the framework answers with 500.
DeleteRemove_Unguarded(t) ==
    /\ lock = None
    /\ deleting[t] > 0
    /\ IF t \in DOMAIN tasks
       THEN /\ tasks' = Without(tasks, t)
            /\ task_results' = Without(task_results, t)
            /\ response' = [op |-> "delete", task_id |-> t, code |-> 200]
       ELSE /\ UNCHANGED <<tasks, task_results>>
            /\ response' = [op |-> "delete", task_id |-> t, code |-> 500]
    /\ deleting' = [deleting EXCEPT ![t] = @ - 1]
    /\ UNCHANGED <<ready, held, stats>>
    /\ UNCHANGED <<capacity, sem_value, sem_waiters, running_tasks, pc,
                   stage, exc, files, clock>>
    /\ UNCHANGED lock

\* delete_task lines 227-234: both maps lose the id under the lock.
DeleteRemove(t) ==
    /\ lock = None
    /\ deleting[t] > 0
    /\ tasks' = Without(tasks, t)
    /\ task_results' = Without(task_results, t)
    /\ deleting' = [deleting EXCEPT ![t] = @ - 1]
    /\ response' = [op |-> "delete", task_id |-> t, code |-> 200]
    /\ UNCHANGED <<ready, held, stats>>
    /\ UNCHANGED <<capacity, sem_value, sem_waiters, running_tasks, pc,
                   stage, exc, files, clock>>
    /\ UNCHANGED lock

\* Slip: the age test without the status test.
OldTasks_AnyStatus(ts, max_age_hours, cutoff) ==
    {t \in DOMAIN ts : cutoff - ts[t].created_at > max_age_hours}

\* Slip: the status test forgets FAILED.
OldTasks_CompletedOnly(ts, max_age_hours, cutoff) ==
    {t \in DOMAIN ts : /\ cutoff - ts[t].created_at > max_age_hours
                       /\ ts[t].status = COMPLETED}

\* The ids cleanup_old_tasks(max_age_hours) collects at time `cutoff`.
OldTasks(ts, max_age_hours, cutoff) ==
    {t \in DOMAIN ts : /\ cutoff - ts[t].created_at > max_age_hours
                       /\ ts[t].status \in {COMPLETED, FAILED}}

\* cleanup_old_tasks: `cutoff` is the utcnow() it read before taking the
\* lock (line 214), so it is no later than the time of the lock block.
Cleanup(max_age_hours, cutoff) ==
    /\ lock = None
    /\ LET old_tasks == OldTasks(tasks, max_age_hours, cutoff)
       IN  /\ tasks' = [t \in DOMAIN tasks \ old_tasks |-> tasks[t]]
           /\ task_results' =
                [t \in DOMAIN task_results \ old_tasks |-> task_results[t]]
    /\ response' = NoResponse
    /\ UNCHANGED <<ready, held, stats>>
    /\ UNCHANGED <<capacity, sem_value, sem_waiters, running_tasks, pc,
                   stage, exc, files, deleting, clock>>
    /\ UNCHANGED lock

\* Time passes.
Tick ==
    /\ clock < MaxClock
    /\ clock' = clock + 1
    /\ response' = NoResponse
    /\ UNCHANGED <<ready, held, stats>>
    /\ UNCHANGED <<capacity, tasks, task_results, sem_value, sem_waiters,
                   running_tasks, pc, stage, exc, files, deleting>>
    /\ UNCHANGED lock

Next ==
    \/ \E a \in AudioPaths : Submit(a)
    \/ \E t \in TaskIds : Acquire(t)
    \/ \E t \in TaskIds : Resume(t)
    \/ \E t \in TaskIds : Lookup(t)
    \/ \E t \in TaskIds : FailNoAudio(t)
    \/ \E t \in TaskIds : Start(t)
    \/ \E t \in TaskIds : Progress(t)
    \/ \E t \in TaskIds : \E d \in Descriptions : Fault(t, d)
    \/ \E t \in TaskIds : StoreResult(t)
    \/ \E t \in TaskIds : Complete(t)
    \/ \E t \in TaskIds : Except(t)
    \/ \E t \in TaskIds : Release(t)
    \/ \E t \in TaskIds : Poll(t)
    \/ \E t \in TaskIds : DeleteLookup(t)
    \/ \E t \in TaskIds : DeleteRemove(t)
    \/ \E h \in 0..MaxClock : \E c \in 0..clock : Cleanup(h, c)
    \/ Tick

Spec == Init /\ [][Next]_vars

\* A step of the execution of job t inside the semaphore's scope.
ExecStep(t) ==
    \/ Lookup(t) \/ FailNoAudio(t) \/ Start(t) \/ Progress(t)
    \/ \E d \in Descriptions : Fault(t, d)
    \/ StoreResult(t) \/ Complete(t) \/ Except(t) \/ Release(t)

\* process_task(t) is between entering and leaving `async with`.
InBody(t) ==
    pc[t] \in {"lookup", "no_audio", "start", "transcribe", "complete",
               "except", "finally"}

\* ------------------------------------------- a caller that keeps the record
\* get_task for a caller that keeps what it got (get_task_status returns it
\* to the framework, which serialises it after the handler has returned).
\* `returned` is the record as it read when get_task returned.
Hold(t) ==
    /\ lock = None
    /\ held = None
    /\ GetTask(tasks, task_results, t) # None
    /\ tasks' = GetTaskStore(tasks, task_results, t)
    /\ held' = Some([task_id |-> t,
                     returned |-> GetTask(tasks, task_results, t)[1]])
    /\ response' = NoResponse
    /\ UNCHANGED <<capacity, task_results, sem_value, sem_waiters,
                   running_tasks, pc, stage, exc, files, deleting, clock,
                   ready, stats>>
    /\ UNCHANGED lock

\* The caller lets go of the record.
Drop ==
    /\ held # None
    /\ held' = None
    /\ response' = NoResponse
    /\ UNCHANGED <<capacity, tasks, task_results, sem_value, sem_waiters,
                   running_tasks, pc, stage, exc, files, deleting, clock,
                   ready, stats>>
    /\ UNCHANGED lock

\* What the caller reads in the record it holds: get_task returns the
\* TaskProgress object stored in _tasks itself (`return task`), not a copy,
\* so the caller reads the stored record for as long as it is in the map.
HeldRecord == tasks[held[1].task_id]

\* Uploads, executions and one caller of get_task that keeps the record.
NextSnap ==
    \/ \E a \in AudioPaths : Submit(a)
    \/ \E t \in TaskIds : Acquire(t)
    \/ \E t \in TaskIds : Resume(t)
    \/ \E t \in TaskIds : Lookup(t)
    \/ \E t \in TaskIds : FailNoAudio(t)
    \/ \E t \in TaskIds : Start(t)
    \/ \E t \in TaskIds : Progress(t)
    \/ \E t \in TaskIds : \E d \in Descriptions : Fault(t, d)
    \/ \E t \in TaskIds : StoreResult(t)
    \/ \E t \in TaskIds : Complete(t)
    \/ \E t \in TaskIds : Except(t)
    \/ \E t \in TaskIds : Release(t)
    \/ \E t \in TaskIds : Hold(t)
    \/ Drop

SpecSnap == Init /\ [][NextSnap]_vars

\* ---------------------------------------------------------------- get_stats
\* The number of records of ts whose status is in `statuses`.
CountStatus(ts, statuses) ==
    Cardinality({t \in DOMAIN ts : ts[t].status \in statuses})

\* get_stats lines 116-123: the four counts, taken in one lock block.
GetStatsCount ==
    /\ lock = None
    /\ stats = None
    /\ stats' = Some([pending |-> CountStatus(tasks, {PENDING}),
                      processing |-> CountStatus(tasks, RunningStatuses),
                      completed |-> CountStatus(tasks, {COMPLETED}),
                      failed |-> CountStatus(tasks, {FAILED})])
    /\ response' = NoResponse
    /\ UNCHANGED <<capacity, tasks, task_results, sem_value, sem_waiters,
                   running_tasks, pc, stage, exc, files, deleting, clock,
                   ready, held>>
    /\ UNCHANGED lock

\* get_stats lines 125-131: the return statement, after the `with` block
\* has been left, reads len(self._tasks) for "total".
GetStatsTotal ==
    /\ stats # None
    /\ response' = [op |-> "stats",
                    pending |-> stats[1].pending,
                    processing |-> stats[1].processing,
                    completed |-> stats[1].completed,
                    failed |-> stats[1].failed,
                    total |-> Cardinality(DOMAIN tasks)]
    /\ stats' = None
    /\ UNCHANGED <<capacity, tasks, task_results, sem_value, sem_waiters,
                   running_tasks, pc, stage, exc, files, deleting, clock,
                   ready, held>>
    /\ UNCHANGED lock

\* Uploads, executions and deletes beside a caller of get_stats.
NextStats ==
    \/ \E a \in AudioPaths : Submit(a)
    \/ \E t \in TaskIds : Acquire(t)
    \/ \E t \in TaskIds : Resume(t)
    \/ \E t \in TaskIds : ExecStep(t)
    \/ \E t \in TaskIds : Poll(t)
    \/ \E t \in TaskIds : DeleteLookup(t)
    \/ \E t \in TaskIds : DeleteRemove(t)
    \/ GetStatsCount
    \/ GetStatsTotal

SpecStats == Init /\ [][NextStats]_vars

\* ------------------------------------------------------- a burst of uploads
BurstSize == 3       \* uploads of a burst (task ids 1..BurstSize)

InitBurst == InitWith(1..BurstSize)

\* Uploads and their executions, which contend for the slots.
NextBurst ==
    \/ \E a \in AudioPaths : Submit(a)
    \/ \E t \in TaskIds : Acquire(t)
    \/ \E t \in TaskIds : Resume(t)
    \/ \E t \in TaskIds : ExecStep(t)

SpecBurst == InitBurst /\ [][NextBurst]_vars

\* ------------------------------------------- a pipeline of any percentages
\* progress_callback takes (status: str, progress: float) from whatever
\* pipeline calls it; update_task assigns the float to the record
\* (TaskProgress declares ge=0.0, le=100.0, which pydantic validates when
\* the record is constructed, not when a field is assigned).
Percentages == {0 - 5, 50, 150}

\* The pipeline's next update_progress call, made with any percentage.
ProgressWith(t, percent) ==
    /\ lock = None
    /\ pc[t] = "transcribe"
    /\ \E k \in 1..Len(Stages) :
        /\ \/ k = stage[t] + 1
           \/ k = stage[t] + 2 /\ stage[t] + 1 = DiarizeStage
        /\ stage[t] = LoadAudioStage => t \in files
        /\ tasks' = ProgressCallback(tasks, t, Stages[k].name, percent, clock)
        /\ stage' = [stage EXCEPT ![t] = k]
    /\ response' = NoResponse
    /\ UNCHANGED <<ready, held, stats>>
    /\ UNCHANGED <<capacity, task_results, sem_value, sem_waiters,
                   running_tasks, pc, exc, files, deleting, clock>>
    /\ UNCHANGED lock

\* process_task around a pipeline that reports any percentages.
NextWith ==
    \/ \E a \in AudioPaths : Submit(a)
    \/ \E t \in TaskIds : Acquire(t)
    \/ \E t \in TaskIds : Resume(t)
    \/ \E t \in TaskIds : Lookup(t)
    \/ \E t \in TaskIds : FailNoAudio(t)
    \/ \E t \in TaskIds : Start(t)
    \/ \E t \in TaskIds : \E p \in Percentages : ProgressWith(t, p)
    \/ \E t \in TaskIds : \E d \in Descriptions : Fault(t, d)
    \/ \E t \in TaskIds : StoreResult(t)
    \/ \E t \in TaskIds : Complete(t)
    \/ \E t \in TaskIds : Except(t)
    \/ \E t \in TaskIds : Release(t)

SpecWith == Init /\ [][NextWith]_vars

\* ------------------------------------------------- the application's loop
\* The application runs every handler and every process_task as a
\* coroutine on one event loop (uvicorn, one worker), which switches
\* coroutines only where one suspends.  process_task can suspend where it
\* waits for a slot; WhisperXService.transcribe is `async def` without any
\* await, so `await service.transcribe(...)` runs the pipeline, progress
\* callbacks included, on the loop without suspending, and the body of
\* process_task runs from the slot's acquisition to its release as one
\* stretch.  delete_task has no await between get_task and the removal.

\* The loop is between coroutine stretches: no body and no delete_task is
\* under way.
LoopIdle == \A t \in TaskIds : ~InBody(t) /\ deleting[t] = 0

LoopSubmit(audio_path) == LoopIdle /\ Submit(audio_path)
LoopAcquire(t) == LoopIdle /\ Acquire(t)
LoopBody(t) == InBody(t) /\ ExecStep(t)
LoopPoll(t) == LoopIdle /\ Poll(t)
LoopDeleteLookup(t) == LoopIdle /\ DeleteLookup(t)

NextLoop ==
    \/ \E a \in AudioPaths : LoopSubmit(a)
    \/ \E t \in TaskIds : LoopAcquire(t)
    \/ \E t \in TaskIds : LoopBody(t)
    \/ \E t \in TaskIds : LoopPoll(t)
    \/ \E t \in TaskIds : LoopDeleteLookup(t)
    \/ \E t \in TaskIds : DeleteRemove(t)

SpecLoop == InitBurst /\ [][NextLoop]_vars

\* The loop runs a coroutine that is ready to run.
SpecLoopFair ==
    /\ SpecLoop
    /\ \A t \in 1..BurstSize :
        WF_vars(LoopAcquire(t)) /\ WF_vars(LoopBody(t))

\* Every scheduled process_task gets to run: the loop (or a thread
\* scheduler) runs an execution that can take its next step, and every
\* pipeline call returns or raises.
SpecFair ==
    /\ Spec
    /\ \A t \in 1..MaxTasks :
        WF_vars(Acquire(t)) /\ WF_vars(Resume(t)) /\ WF_vars(ExecStep(t))

\* ================================================================ claims

\* Records whose status is one of the Running sub-phases.
RunningRecords == {t \in DOMAIN tasks : tasks[t].status \in RunningStatuses}

\* Executions that hold an admission slot: inside `async with`, or woken
\* with the slot handed over by release().
SlotHolders ==
    {t \in TaskIds : pc[t] \in {"woken", "lookup", "no_audio", "start",
                                "transcribe", "complete", "except",
                                "finally", "unwind"}}

Finished(t) == pc[t] \in {"returned", "raised"}

\* C1: in every reachable state at most `capacity` records have a Running
\* sub-phase status (processing, transcribing, aligning, diarizing).
C1_AtMostCapacityRunning == Cardinality(RunningRecords) <= capacity

\* C1 witness: the capacity is exhausted by Running records while another
\* submitted job waits for a slot.
C1_Witness ==
    /\ Cardinality(RunningRecords) = capacity
    /\ \E t \in TaskIds : pc[t] = "waiting" /\ t \in DOMAIN tasks

\* C2: free slots plus held slots always add up to the capacity, and once
\* every submitted execution has finished all `capacity` slots are free
\* again, nobody waits and _running_tasks is empty.
C2_SlotsConserved ==
    /\ sem_value + Cardinality(SlotHolders) = capacity
    /\ (\A t \in TaskIds : pc[t] = "unborn" \/ Finished(t))
        => /\ sem_value = capacity
           /\ sem_waiters = <<>>
           /\ running_tasks = {}

\* C2 witness: all jobs were submitted, the pipeline raised on every call,
\* and all executions have finished.
C2_Witness ==
    \A t \in TaskIds : Finished(t) /\ exc[t] # None

\* C3: a Completed record has a stored result (which get_task joins, so
\* get_task_result never answers "result is missing") and no error; a
\* Failed record has an error and no stored result.
C3_TerminalResultXorError ==
    \A t \in DOMAIN tasks :
        /\ tasks[t].status = COMPLETED
            => /\ t \in DOMAIN task_results
               /\ tasks[t].error = None
               /\ GetTask(tasks, task_results, t)[1].result
                    = Some(ResultOf(t))
               /\ ResultCode(GetTask(tasks, task_results, t)) = 200
        /\ tasks[t].status = FAILED
            => /\ tasks[t].error # None
               /\ t \notin DOMAIN task_results
               /\ tasks[t].result = None

\* C3 witness: a Completed record and a Failed record side by side.
C3_Witness ==
    \E t, u \in DOMAIN tasks :
        tasks[t].status = COMPLETED /\ tasks[u].status = FAILED


\* C4 (as claimed): in every reachable state a job has a stored result if
\* and only if it has a record whose status is Completed.
C4_ResultIffCompleted ==
    \A t \in TaskIds :
        (t \in DOMAIN task_results)
            <=> (t \in DOMAIN tasks /\ tasks[t].status = COMPLETED)

\* C5: a record's error is set exactly when its status is Failed, and an
\* error that is set keeps its value for as long as the record exists.
C5_ErrorIffFailed ==
    /\ [](\A t \in DOMAIN tasks :
            (tasks[t].error # None) <=> (tasks[t].status = FAILED))
    /\ [][\A t \in DOMAIN tasks :
            (tasks[t].error # None /\ t \in DOMAIN tasks')
                => tasks'[t].error = tasks[t].error]_vars

\* C5 witness: a job Failed by a pipeline fault whose execution is over,
\* beside a job that Failed for want of an audio path.
C5_Witness ==
    \E t, u \in DOMAIN tasks :
        /\ Finished(t) /\ tasks[t].status = FAILED /\ tasks[t].error = exc[t]
        /\ tasks[u].status = FAILED
        /\ tasks[u].error = Some("Audio path not found")

\* The fields of a record other than the result field get_task fills in.
Core(task) == [task EXCEPT !.result = None]

\* C6 (as claimed): a step leaves status, progress, error, result and
\* completed_at of every terminal record that survives it unchanged, and
\* no status returns to Pending.
C6_TerminalImmutable ==
    [][\A t \in DOMAIN tasks :
        /\ (tasks[t].status \in TerminalStatuses /\ t \in DOMAIN tasks')
            => /\ tasks'[t].status = tasks[t].status
               /\ tasks'[t].progress = tasks[t].progress
               /\ tasks'[t].error = tasks[t].error
               /\ tasks'[t].result = tasks[t].result
               /\ tasks'[t].completed_at = tasks[t].completed_at
        /\ (tasks[t].status # PENDING /\ t \in DOMAIN tasks')
            => tasks'[t].status # PENDING]_vars

\* C6 (amended): a step leaves every field but `result` of a terminal record
\* that survives it unchanged, and leaves its stored result unchanged; the
\* record's result field changes only by get_task copying the stored result
\* into it; a record is removed together with its stored result; no status
\* returns to Pending.
C6_TerminalImmutableButJoin ==
    [][\A t \in DOMAIN tasks :
        /\ (tasks[t].status \in TerminalStatuses /\ t \in DOMAIN tasks')
            => /\ Core(tasks'[t]) = Core(tasks[t])
               /\ \/ tasks'[t].result = tasks[t].result
                  \/ /\ t \in DOMAIN task_results
                     /\ tasks'[t].result = Some(task_results[t])
               /\ (t \in DOMAIN task_results) <=> (t \in DOMAIN task_results')
               /\ t \in DOMAIN task_results
                    => task_results'[t] = task_results[t]
        /\ (tasks[t].status \in TerminalStatuses /\ t \notin DOMAIN tasks')
            => t \notin DOMAIN task_results'
        /\ (tasks[t].status # PENDING /\ t \in DOMAIN tasks')
            => tasks'[t].status # PENDING]_vars

\* C6 witness: a Completed record of a finished execution, read by get_task
\* since, at a time later than its completion.
C6_Witness ==
    \E t \in DOMAIN tasks :
        /\ Finished(t)
        /\ tasks[t].status = COMPLETED
        /\ tasks[t].result = Some(ResultOf(t))
        /\ tasks[t].completed_at = Some(0)
        /\ clock = 1

\* C7: a pipeline fault never leaves process_task; no result is stored for
\* the job; once the except clause has run the record, if present, is
\* Failed with the fault's description as error, completed_at set and no
\* result; the finished execution is out of _running_tasks, and its release
\* frees the slot or hands it to the first waiter.
C7_FaultBecomesFailed ==
    /\ [](\A t \in TaskIds :
            /\ pc[t] # "raised"
            /\ exc[t] # None => t \notin DOMAIN task_results
            /\ (exc[t] # None /\ pc[t] \in {"finally", "returned"}
                /\ t \in DOMAIN tasks)
                => /\ tasks[t].status = FAILED
                   /\ tasks[t].error = exc[t]
                   /\ tasks[t].completed_at # None
                   /\ tasks[t].result = None
            /\ (exc[t] # None /\ pc[t] = "returned")
                => t \notin running_tasks)
    /\ [][\A t \in TaskIds :
            (exc[t] # None /\ pc[t] = "finally" /\ pc'[t] = "returned")
                => \/ NextWaiter = 0 /\ sem_value' = sem_value + 1
                   \/ /\ NextWaiter # 0
                      /\ pc'[NextWaiter] = "woken"
                      /\ sem_value' = sem_value]_vars

\* C7 witness: with one slot, a job whose pipeline raised is Failed and its
\* execution over, and the job that waited behind it has been handed the slot.
C7_Witness ==
    \E t, u \in TaskIds :
        /\ capacity = 1
        /\ exc[t] # None /\ pc[t] = "returned"
        /\ t \in DOMAIN tasks /\ tasks[t].status = FAILED
        /\ pc[u] = "woken"

BeforeFirstUpdate(t) ==
    pc[t] \in {"scheduled", "waiting", "woken", "lookup", "no_audio", "start"}

\* C8: as long as the execution of a created job has made no update and the
\* record has not been removed, get_task returns the record with that id,
\* status Pending, progress 0 and started_at, completed_at, error, result unset.
C8_FreshTaskIsPending ==
    \A t \in TaskIds :
        (BeforeFirstUpdate(t) /\ t \in DOMAIN tasks)
            => LET got == GetTask(tasks, task_results, t)
               IN  /\ got # None
                   /\ got[1].task_id = t
                   /\ got[1].status = PENDING
                   /\ got[1].progress = 0
                   /\ got[1].started_at = None
                   /\ got[1].completed_at = None
                   /\ got[1].error = None
                   /\ got[1].result = None

\* C8 witness: a job just created, not yet at the semaphore, while another
\* job's result is already stored.
C8_Witness ==
    \E t, u \in TaskIds :
        /\ pc[t] = "scheduled" /\ t \in DOMAIN tasks
        /\ u \in DOMAIN task_results

C10_DeletedStaysDeleted ==
    /\ [][\A t \in TaskIds :
            (pc[t] # "unborn" /\ t \notin DOMAIN tasks)
                => GetTask(tasks', task_results', t) = None]_vars
    /\ [](\A t \in TaskIds :
            /\ (InBody(t) /\ t \notin DOMAIN tasks) => ENABLED ExecStep(t)
            /\ Finished(t) => t \notin running_tasks)

\* C10 witness: an execution has finished whose record was deleted while the
\* pipeline ran: its result was stored after the removal.
C10_Witness ==
    \E t \in TaskIds :
        /\ pc[t] = "returned"
        /\ t \notin DOMAIN tasks
        /\ t \in DOMAIN task_results

\* C11: a sweep removes exactly the records that are terminal and older
\* than max_age at its cutoff, each together with its stored result; every
\* Pending or Running record stays, whatever its age and max_age, and all
\* remaining records and results are unchanged.
C11_SweepRemovesOnlyOldTerminal ==
    [][\A h \in 0..MaxClock : \A c \in 0..clock :
        Cleanup(h, c)
            => LET gone == {t \in DOMAIN tasks :
                              /\ tasks[t].status \in TerminalStatuses
                              /\ c - tasks[t].created_at > h}
               IN  /\ DOMAIN tasks' = DOMAIN tasks \ gone
                   /\ DOMAIN task_results' = DOMAIN task_results \ gone
                   /\ \A t \in DOMAIN tasks' : tasks'[t] = tasks[t]
                   /\ \A t \in DOMAIN task_results' :
                        task_results'[t] = task_results[t]
                   /\ \A t \in DOMAIN tasks :
                        tasks[t].status \in {PENDING} \cup RunningStatuses
                            => t \in DOMAIN tasks']_vars

\* C11 witness: a sweep has removed a finished job (its audio file is still
\* on disk, so no delete did it) and has left a Running record of the same
\* age in the store.
C11_Witness ==
    \E t, u \in TaskIds :
        /\ pc[t] = "returned" /\ t \in files /\ t \notin DOMAIN tasks
        /\ u \in DOMAIN tasks
        /\ tasks[u].status \in RunningStatuses
        /\ tasks[u].created_at = 0
        /\ clock = 1

\* C12 (as claimed): after a sweep with max_age 0 the store contains no
\* terminal job.
C12_SweepZeroRemovesAllTerminal ==
    [][\A c \in 0..clock :
        Cleanup(0, c)
            => \A t \in DOMAIN tasks' :
                  tasks'[t].status \notin TerminalStatuses]_vars

\* C12 (amended): a sweep with max_age 0 removes every terminal job created
\* before the sweep's cutoff, with its stored result; the terminal jobs it
\* leaves are those created at or after the cutoff.
C12_SweepZeroRemovesOlderTerminal ==
    [][\A c \in 0..clock :
        Cleanup(0, c)
            => /\ \A t \in DOMAIN tasks :
                    (tasks[t].status \in TerminalStatuses
                     /\ tasks[t].created_at < c)
                        => /\ t \notin DOMAIN tasks'
                           /\ t \notin DOMAIN task_results'
               /\ \A t \in DOMAIN tasks' :
                    tasks'[t].status \in TerminalStatuses
                        => /\ tasks'[t].created_at >= c
                           /\ tasks'[t] = tasks[t]]_vars

\* C12 witness: every job has finished, one by a pipeline fault and one
\* with a result, and a sweep (no delete: the audio files are on disk) has
\* emptied both maps.
C12_Witness ==
    /\ \A t \in TaskIds : pc[t] = "returned" /\ t \in files
    /\ \E t, u \in TaskIds : exc[t] # None /\ exc[u] = None
    /\ tasks = <<>>
    /\ task_results = <<>>

\* The status the stage table gives a stage name.
StageStatus(name) ==
    IF name \in {"transcribing", "aligning", "diarizing"} THEN name
    ELSE "processing"

\* What the update_task calls of process_task write as one update, as
\* <<status, progress, message>>.
WholeUpdates ==
    {<<"pending", 0, "Task queued">>,
     <<"processing", 0, "Starting transcription">>,
     <<"completed", 100, "Transcription completed successfully">>}
    \cup {<<StageStatus(n), q, "Status: " \o n>> :
            <<n, q>> \in {<<"loading_audio", 5>>, <<"transcribing", 10>>,
                           <<"transcribing", 40>>, <<"aligning", 45>>,
                           <<"aligning", 60>>, <<"diarizing", 65>>,
                           <<"processing", 90>>, <<"completed", 100>>}}

\* A step of process_task(t) that calls update_task.
UpdateStep(t) ==
    FailNoAudio(t) \/ Start(t) \/ Progress(t) \/ Complete(t) \/ Except(t)

\* C13: an update_task call for an id without record raises nothing (the
\* execution goes on to its next statement) and leaves both maps as they
\* are; every record a reader finds in the store shows whole updates only:
\* status, progress and message come from one call, a Failed record has
\* its error and completed_at, and started_at is set with the first
\* Running status.
C13_UpdateAtomicOrNoOp ==
    /\ [][\A t \in TaskIds :
            (UpdateStep(t) /\ t \notin DOMAIN tasks)
                => /\ tasks' = tasks
                   /\ task_results' = task_results
                   /\ pc'[t] \in {"finally", "transcribe"}
                   /\ exc' = exc]_vars
    /\ [](\A t \in DOMAIN tasks :
            LET r == tasks[t]
            IN  /\ \/ <<r.status, r.progress, r.message>> \in WholeUpdates
                   \/ /\ r.status = "failed"
                      /\ r.message = "Transcription failed"
                      /\ r.error \in {Some(d) : d \in Descriptions}
                      /\ \E w \in WholeUpdates :
                            w[1] # "pending" /\ w[2] = r.progress
                   \/ /\ r.status = "failed"
                      /\ r.message = "Task queued"
                      /\ r.progress = 0
                      /\ r.error = Some("Audio path not found")
                /\ (r.status \in {"completed", "failed"})
                        <=> (r.completed_at # None)
                /\ (r.status \in RunningStatuses \cup {"completed"})
                        => r.started_at # None
                /\ r.status = "pending" => r.started_at = None)

\* C13 witness: the except clause's update found no record (the job was
\* deleted while its pipeline ran) and the execution ended normally, while
\* another job's record shows the diarizing callback's update.
C13_Witness ==
    \E t, u \in TaskIds :
        /\ pc[t] = "returned" /\ exc[t] # None /\ t \notin DOMAIN tasks
        /\ u \in DOMAIN tasks
        /\ tasks[u].status = "diarizing" /\ tasks[u].progress = 65

\* C14 (as claimed): the record get_task returned reads, for as long as the
\* caller holds it and the job is in the store, as it read when get_task
\* returned, whatever updates the job's execution applies meanwhile.
C14_ReturnedRecordIsSnapshot ==
    (held # None /\ held[1].task_id \in DOMAIN tasks)
        => HeldRecord = held[1].returned

\* C15 (as claimed): while a job's pipeline call is in progress, the loop
\* serves other callers: get_task and delete of any job in the store, and
\* the create_task and scheduling of a new upload, can take place.
C15_CallersServedDuringPipeline ==
    \A t \in TaskIds :
        pc[t] = "transcribe"
            => /\ \A u \in DOMAIN tasks :
                    ENABLED LoopPoll(u) /\ ENABLED LoopDeleteLookup(u)
               /\ (\E u \in TaskIds : pc[u] = "unborn")
                    => ENABLED (\E a \in AudioPaths : LoopSubmit(a))

\* A burst: every upload has been made, with its audio on disk, and no
\* execution has asked for a slot yet; there are more jobs than slots.
BurstSubmitted ==
    /\ capacity < Cardinality(TaskIds)
    /\ \A t \in TaskIds :
        pc[t] = "scheduled" /\ t \in DOMAIN tasks /\ t \in files

\* Exactly `capacity` records are in a Running sub-phase and all others of
\* the burst are still Pending.
CapacityUsed ==
    /\ Cardinality(RunningRecords) = capacity
    /\ \A t \in TaskIds \ RunningRecords :
        t \in DOMAIN tasks /\ tasks[t].status = PENDING

\* A job of the burst was deleted, or failed.
Disturbed ==
    \E t \in TaskIds :
        \/ t \notin DOMAIN tasks
        \/ tasks[t].status = FAILED
        \/ exc[t] # None
        \/ t \notin files

\* C16 (as claimed): after a burst of more jobs than slots, a state follows
\* in which exactly `capacity` jobs are in a Running sub-phase while all the
\* others are still Pending (unless a job of the burst is deleted or fails
\* first).
C16_BurstFillsCapacity ==
    BurstSubmitted ~> (CapacityUsed \/ Disturbed)

\* Position of task t in the semaphore's waiter queue, 0 if not queued.
WaitPos(q, t) ==
    IF \E i \in 1..Len(q) : q[i] = t
    THEN CHOOSE i \in 1..Len(q) : q[i] = t
    ELSE 0

\* C17: executions enter the waiter queue at its end and keep their order
\* in it, and an execution is admitted (joins _running_tasks, the step in
\* which it holds its slot) only when no other execution is ahead of it in
\* the queue: a waiter only from the head, an execution that has just
\* arrived only when nobody is queued, also when a slot has just been
\* released.
C17_WaitersPromotedInOrder ==
    [][/\ \A b \in TaskIds :
            (b \notin running_tasks /\ b \in running_tasks')
                => \A a \in TaskIds \ {b} :
                      WaitPos(sem_waiters, a) > 0
                          => /\ WaitPos(sem_waiters, b) > 0
                             /\ WaitPos(sem_waiters, b)
                                    < WaitPos(sem_waiters, a)
       /\ \A a, b \in TaskIds :
            (WaitPos(sem_waiters, a) > 0 /\ WaitPos(sem_waiters', a) > 0
             /\ WaitPos(sem_waiters', b) > 0)
                => /\ WaitPos(sem_waiters, b) = 0
                        => WaitPos(sem_waiters', a) < WaitPos(sem_waiters', b)
                   /\ (WaitPos(sem_waiters, b) > 0
                       /\ WaitPos(sem_waiters, a) < WaitPos(sem_waiters, b))
                        => WaitPos(sem_waiters', a)
                                < WaitPos(sem_waiters', b)]_vars

\* C17 witness: with one slot, the first waiter has been admitted and runs
\* its pipeline while the upload that arrived when the slot had just been
\* released to that waiter is still queued.
C17_Witness ==
    \E x, a, b \in TaskIds :
        /\ capacity = 1
        /\ pc[x] = "returned"
        /\ pc[a] = "transcribe"
        /\ pc[b] = "waiting"
        /\ a < b /\ x < a
        /\ sem_waiters = <<b>>

\* C18: the progress get_task returns for a job never decreases from one
\* state to the next, from 0 at creation to the terminal state; while the
\* pipeline runs it is the percentage of the callback issued last, and a
\* completed job shows 100.
C18_ProgressNeverDecreases ==
    /\ [][\A t \in DOMAIN tasks :
            t \in DOMAIN tasks'
                => GetTask(tasks', task_results', t)[1].progress
                        >= GetTask(tasks, task_results, t)[1].progress]_vars
    /\ [](\A t \in DOMAIN tasks :
            /\ BeforeFirstUpdate(t) => tasks[t].progress = 0
            /\ (pc[t] = "transcribe" /\ stage[t] > 0)
                => tasks[t].progress = Stages[stage[t]].percent
            /\ tasks[t].status = COMPLETED => tasks[t].progress = 100)
    /\ [][\A t \in TaskIds : stage'[t] # stage[t]
            => stage'[t] > stage[t] \/ stage'[t] = 0]_vars

\* C18 witness: a job that failed while its result was formatted still
\* shows 90 once its execution is over, beside a job completed at 100.
C18_Witness ==
    \E t, u \in DOMAIN tasks :
        /\ Finished(t) /\ tasks[t].status = FAILED /\ tasks[t].progress = 90
        /\ Finished(u) /\ tasks[u].status = COMPLETED
        /\ tasks[u].progress = 100

\* C19: a progress callback (stage, percent) on a job in the store leaves
\* the record with progress = percent and the status of the stage table
\* (own sub-phase for transcribing, aligning, diarizing; processing for
\* any other name, also one the table does not know); it raises nothing,
\* the pipeline goes on, and the status it sets is never terminal.  A run
\* that ends without fault leaves a record still in the store Completed
\* with progress 100.
C19_CallbackSetsStageAndPercent ==
    /\ [][\A t \in TaskIds :
            (Progress(t) /\ t \in DOMAIN tasks)
                => /\ stage'[t] \in 1..Len(Stages)
                   /\ tasks'[t].progress = Stages[stage'[t]].percent
                   /\ tasks'[t].status = StageStatus(Stages[stage'[t]].name)
                   /\ tasks'[t].status \notin TerminalStatuses
                   /\ pc'[t] = "transcribe"
                   /\ exc' = exc]_vars
    /\ [](\A t \in DOMAIN tasks :
            pc[t] = "transcribe"
                => LET r == ProgressCallback(tasks, t, "stage_a", 30, clock)[t]
                   IN  r.status = "processing" /\ r.progress = 30)
    /\ [](\A t \in DOMAIN tasks :
            (pc[t] = "returned" /\ exc[t] = None
             /\ tasks[t].audio_path # "")
                => /\ tasks[t].status = COMPLETED
                   /\ tasks[t].progress = 100)

\* C19 witness: one job's record shows the diarizing callback's status and
\* percentage while its pipeline runs, and another job's run has ended
\* Completed at 100.
C19_Witness ==
    \E t, u \in DOMAIN tasks :
        /\ pc[t] = "transcribe" /\ stage[t] = DiarizeStage
        /\ tasks[t].status = DIARIZING /\ tasks[t].progress = 65
        /\ pc[u] = "returned" /\ tasks[u].status = COMPLETED
        /\ tasks[u].progress = 100

\* C20 (as claimed): every read of the record map is made in a lock block,
\* so all that one get_stats call reads belongs to one state of the store:
\* the total it returns is the number of records its lock block counted.
C20_StatsReadUnderLock ==
    response.op = "stats"
        => response.total = response.pending + response.processing
                            + response.completed + response.failed

C22_StatsDescribeOneState ==
    [][response'.op = "stats"
        => response'.total = response'.pending + response'.processing
                             + response'.completed + response'.failed]_vars

\* C23: the execution of a job whose record has no audio path never calls
\* the pipeline and stores no result; once it has handled the missing
\* input the record is Failed with a non-empty error and completed_at set,
\* its slot can be released at once, and the finished execution has left
\* _running_tasks.
C23_MissingInputFails ==
    /\ [](\A t \in DOMAIN tasks :
            tasks[t].audio_path = ""
                => /\ pc[t] \notin {"start", "transcribe", "complete", "except"}
                   /\ stage[t] = 0
                   /\ exc[t] = None
                   /\ t \notin DOMAIN task_results
                   /\ pc[t] \in {"finally", "returned"}
                        => /\ tasks[t].status = FAILED
                           /\ tasks[t].error # None
                           /\ tasks[t].error # Some("")
                           /\ tasks[t].completed_at # None
                           /\ tasks[t].result = None
                   /\ pc[t] = "finally" => ENABLED Release(t)
                   /\ pc[t] = "returned" => t \notin running_tasks)
    /\ [][\A t \in TaskIds :
            (FailNoAudio(t) /\ t \in DOMAIN tasks)
                => /\ tasks'[t].status = FAILED
                   /\ pc'[t] = "finally"
                   /\ task_results' = task_results]_vars

\* C23 witness: a job created without audio path is Failed, its execution
\* is over and every slot is free again.
C23_Witness ==
    \E t \in DOMAIN tasks :
        /\ tasks[t].audio_path = ""
        /\ pc[t] = "returned"
        /\ tasks[t].status = FAILED
        /\ sem_value = capacity
        /\ running_tasks = {}

\* C24 (as claimed): an execution that has fetched its job's input has
\* already marked the job Running; every terminal record has started_at
\* set; and no step takes a record from Pending to Completed or Failed.
C24_TerminalOnlyViaRunning ==
    /\ [](\A t \in DOMAIN tasks :
            /\ pc[t] \in {"no_audio", "start"}
                => tasks[t].status \in RunningStatuses
            /\ tasks[t].status \in TerminalStatuses
                => tasks[t].started_at # None)
    /\ [][\A t \in DOMAIN tasks :
            (tasks[t].status = PENDING /\ t \in DOMAIN tasks')
                => tasks'[t].status \notin TerminalStatuses]_vars

\* C25: in every step, a record that stays in the store keeps its id and
\* created_at, keeps started_at and completed_at once they are set, gets
\* started_at (the time of the step) exactly in the step that takes its
\* status into a Running sub-phase for the first time, and completed_at
\* exactly in the step that takes its status into a terminal one.
C25_TimestampsWriteOnce ==
    [][\A t \in DOMAIN tasks :
        t \in DOMAIN tasks'
            => LET old == tasks[t]
                   new == tasks'[t]
               IN  /\ new.task_id = old.task_id
                   /\ new.created_at = old.created_at
                   /\ old.started_at # None
                        => new.started_at = old.started_at
                   /\ old.completed_at # None
                        => new.completed_at = old.completed_at
                   /\ (old.started_at = None /\ new.started_at # None)
                        => /\ old.status = PENDING
                           /\ new.status \in RunningStatuses
                           /\ new.started_at = Some(clock)
                   /\ (old.status = PENDING
                       /\ new.status \in RunningStatuses)
                        => new.started_at # None
                   /\ (old.completed_at = None /\ new.completed_at # None)
                        => /\ old.status \notin TerminalStatuses
                           /\ new.status \in TerminalStatuses
                           /\ new.completed_at = Some(clock)
                   /\ (old.status \notin TerminalStatuses
                       /\ new.status \in TerminalStatuses)
                        => new.completed_at # None]_vars

\* C25 witness: a job started at time 0 went through the pipeline's later
\* callbacks and completed at time 1, and still shows started_at 0.
C25_Witness ==
    \E t \in DOMAIN tasks :
        /\ Finished(t)
        /\ tasks[t].status = COMPLETED
        /\ tasks[t].started_at = Some(0)
        /\ tasks[t].completed_at = Some(1)

\* A step of another job's execution, or of a read operation, as seen
\* from job t.
ForeignStep(t) ==
    \/ \E u \in TaskIds \ {t} : Acquire(u) \/ Resume(u) \/ ExecStep(u)
    \/ \E u \in TaskIds : Poll(u)
    \/ GetStatsCount
    \/ GetStatsTotal

\* C26 (as claimed): status, progress, message, timestamps and error of a
\* record change only in a step of the job's own execution that calls
\* update_task, and a step of another job's execution, of get_task or of
\* get_stats leaves every field of the record unchanged.
C26_SingleWriterAllFields ==
    [][\A t \in DOMAIN tasks :
        t \in DOMAIN tasks'
            => /\ Core(tasks'[t]) # Core(tasks[t]) => UpdateStep(t)
               /\ ForeignStep(t) => tasks'[t] = tasks[t]]_vars

\* C26 (amended): status, progress, message, timestamps and error of a
\* record change only in a step of the job's own execution that calls
\* update_task; a step of another job's execution or of get_stats leaves
\* every field unchanged, and get_task leaves every field but `result`
\* unchanged: `result` changes only by a get_task call for that id, which
\* sets it to the stored result.
C26_SingleWriterButJoin ==
    [][\A t \in DOMAIN tasks :
        t \in DOMAIN tasks'
            => /\ Core(tasks'[t]) # Core(tasks[t]) => UpdateStep(t)
               /\ ForeignStep(t) => Core(tasks'[t]) = Core(tasks[t])
               /\ tasks'[t].result # tasks[t].result
                    => /\ Poll(t) \/ DeleteLookup(t)
                       /\ t \in DOMAIN task_results
                       /\ tasks'[t].result = Some(task_results[t])]_vars

\* C26 witness: get_stats has counted and get_task has read a Completed
\* job while another job's execution is between two callbacks.
C26_Witness ==
    \E t, u \in DOMAIN tasks :
        /\ stats # None
        /\ tasks[u].status = COMPLETED
        /\ tasks[u].result = Some(ResultOf(u))
        /\ pc[t] = "transcribe"
        /\ tasks[t].status = TRANSCRIBING /\ tasks[t].progress = 40

\* Position of a Running status in the order processing, transcribing,
\* aligning, diarizing.
PhaseRank(status) ==
    CASE status = PROCESSING -> 1
      [] status = TRANSCRIBING -> 2
      [] status = ALIGNING -> 3
      [] status = DIARIZING -> 4

\* C27 (as claimed): no step takes a record from a later Running
\* sub-phase to an earlier one in the order processing, transcribing,
\* aligning, diarizing.
C27_SubPhasesNeverGoBack ==
    [][\A t \in DOMAIN tasks :
        (/\ t \in DOMAIN tasks'
         /\ tasks[t].status \in RunningStatuses
         /\ tasks'[t].status \in RunningStatuses)
            => PhaseRank(tasks'[t].status) >= PhaseRank(tasks[t].status)]_vars

\* C27 (amended): no step takes a record from a later one of transcribing,
\* aligning, diarizing to an earlier one of them or back to Pending; the
\* generic processing status is shown before the first of them (start,
\* loading_audio) and again after the last: the only step to an earlier
\* status is the pipeline's "processing" callback (90), after which the
\* record shows processing until it is terminal.
C27_SpecificSubPhasesNeverGoBack ==
    /\ [][\A t \in DOMAIN tasks :
            (/\ t \in DOMAIN tasks'
             /\ tasks[t].status \in RunningStatuses)
                => /\ tasks'[t].status # PENDING
                   /\ tasks'[t].status \in RunningStatuses
                        => \/ PhaseRank(tasks'[t].status)
                                >= PhaseRank(tasks[t].status)
                           \/ /\ tasks'[t].status = PROCESSING
                              /\ Progress(t)
                              /\ Stages[stage'[t]].name = "processing"]_vars
    /\ [](\A t \in DOMAIN tasks :
            pc[t] = "transcribe"
                => /\ stage[t] \in {0, 1, 7, 8}
                        <=> tasks[t].status = PROCESSING
                   /\ stage[t] \in 2..6
                        => tasks[t].status = StageStatus(Stages[stage[t]].name))
    /\ [][\A t \in TaskIds :
            (pc[t] = "transcribe" /\ pc'[t] = "transcribe")
                => stage'[t] >= stage[t]]_vars

\* C27 witness: a job that showed aligning (60) is back at processing
\* (90) while another job, whose diarization is enabled, shows diarizing.
C27_Witness ==
    \E t, u \in DOMAIN tasks :
        /\ pc[t] = "transcribe" /\ stage[t] = 7
        /\ tasks[t].status = PROCESSING /\ tasks[t].progress = 90
        /\ pc[u] = "transcribe" /\ stage[u] = DiarizeStage
        /\ tasks[u].status = DIARIZING

\* C28 (as claimed): the progress of every record lies in [0, 100],
\* whatever percentages the pipeline passes to the progress callback.
C28_ProgressInRange ==
    \A t \in DOMAIN tasks :
        tasks[t].progress >= 0 /\ tasks[t].progress <= 100

\* C29: every record that shows processing, transcribing, aligning or
\* diarizing belongs to an execution that is inside `async with` (it
\* holds a slot) and is in _running_tasks; the record of an execution that
\* has released its slot shows no Running status.
C29_RunningOnlyWithSlot ==
    \A t \in DOMAIN tasks :
        /\ tasks[t].status \in RunningStatuses
            => /\ t \in running_tasks
               /\ InBody(t)
               /\ t \in SlotHolders
        /\ Finished(t) => tasks[t].status \in TerminalStatuses

\* C29 witness: one execution has failed on a pipeline fault and released
\* its slot, its record shows Failed; another is Running inside the slot.
C29_Witness ==
    \E t, u \in DOMAIN tasks :
        /\ Finished(t) /\ exc[t] # None
        /\ tasks[t].status = FAILED
        /\ t \notin running_tasks
        /\ tasks[u].status = ALIGNING
        /\ u \in running_tasks /\ InBody(u)

C31_EveryJobEnds ==
    \A t \in 1..MaxTasks :
        (pc[t] # "unborn")
            ~> (t \notin DOMAIN tasks
                \/ tasks[t].status \in TerminalStatuses)

\* C31 witness: with one slot and both jobs submitted, the job that had to
\* wait has completed after the first one, which failed, gave the slot up.
C31_Witness ==
    /\ capacity = 1
    /\ \A t \in TaskIds : Finished(t) /\ t \in DOMAIN tasks
    /\ tasks[1].status = FAILED /\ tasks[1].completed_at = Some(0)
    /\ tasks[2].status = COMPLETED /\ tasks[2].started_at = Some(1)

\* The execution of job t has not passed its lookup yet.
BeforeLookup(t) == pc[t] \in {"scheduled", "waiting", "woken", "lookup"}

\* C32: an execution whose record is gone before it has looked it up goes
\* from the slot's acquisition to the lookup and from there straight to
\* the finally clause: it never reaches the input test, the first update
\* or the pipeline, none of its steps changes the record map or the result
\* map, no result is stored for it, its lookup and its release can always
\* be taken, and the release takes it out of _running_tasks and frees the
\* slot or hands it to a waiter.
C32_DeletedPendingJobSkipsPipeline ==
    /\ [][\A t \in TaskIds :
            (BeforeLookup(t) /\ pc[t] # "unborn" /\ t \notin DOMAIN tasks)
                => /\ BeforeLookup(t)' \/ pc'[t] = "finally"
                   /\ pc'[t] = "finally" => Lookup(t)
                   /\ stage'[t] = 0 /\ exc'[t] = None
                   /\ t \notin DOMAIN tasks'
                   /\ t \notin DOMAIN task_results'
                   /\ (Acquire(t) \/ Resume(t) \/ Lookup(t))
                        => tasks' = tasks /\ task_results' = task_results]_vars
    /\ [][\A t \in TaskIds :
            (pc[t] = "finally" /\ pc'[t] # "finally")
                => /\ Release(t)
                   /\ pc'[t] = "returned"
                   /\ t \notin running_tasks'
                   /\ tasks' = tasks /\ task_results' = task_results
                   /\ \/ sem_value' = sem_value + 1
                      \/ /\ sem_value' = sem_value
                         /\ \E u \in TaskIds :
                                pc[u] = "waiting" /\ pc'[u] = "woken"]_vars
    /\ [](\A t \in TaskIds :
            /\ (pc[t] = "lookup" /\ t \notin DOMAIN tasks)
                => ENABLED Lookup(t)
            /\ pc[t] = "finally" => ENABLED Release(t))

\* C32 witness: a job deleted before its execution got the slot is in the
\* finally clause, straight from the lookup (no fault, no result stored),
\* still holding the only slot while the other job waits for it.
C32_Witness ==
    \E t, u \in TaskIds :
        /\ capacity = 1
        /\ pc[t] = "finally" /\ t \in running_tasks
        /\ t \notin DOMAIN tasks /\ t \notin DOMAIN task_results
        /\ exc[t] = None /\ deleting[t] = 0
        /\ pc[u] = "waiting" /\ u \in DOMAIN tasks

\* Under the loop no execution ever waits for a slot and no two bodies are
\* under way together.
LoopRunsOneBody ==
    /\ Cardinality({t \in TaskIds : InBody(t)}) <= 1
    /\ sem_waiters = <<>>
    /\ \A t \in TaskIds : pc[t] \notin {"waiting", "woken"}
    /\ Cardinality(RunningRecords) <= 1

====
